---- MODULE Spec2Model ----
(***************************************************************************)
(* Model of the blocktime-calculator core:                                 *)
(*   - CosmosSDKClient.GetBlockRange (internal/client/client.go): the      *)
(*     bounded-concurrency range fetch, one goroutine per height admitted  *)
(*     through a buffered-channel semaphore, the semaphore-reacquire       *)
(*     barrier, the first-error slot, the collection and the sort;         *)
(*   - BlockTimeCalculator.CalculateStatsForRange, the outlier removal,    *)
(*     the statistics, the estimated range and the proposer analysis       *)
(*     (internal/calculator/calculator.go);                                *)
(*   - BlockPredictor.PredictBlockTime and PredictNextBlocks               *)
(*     (internal/calculator/predictor.go).                                 *)
(*                                                                         *)
(* Numbers.  Block timestamps and deltas are whole seconds (integers).     *)
(* A percentile is kept exactly, as an integer scaled by the denominator   *)
(* of its fraction p (percentile(s, 1/4) is carried as 4 * q1).            *)
(* OutlierThreshold is carried in tenths (15 is 1.5) and TrimPercent in    *)
(* hundredths (5 is 0.05).                                                 *)
(***************************************************************************)
EXTENDS Integers, Sequences, FiniteSets, TLC

VARIABLES
    entry,        \* the public operation the caller invoked
    startHeight,  \* arguments of the call
    endHeight,
    chain,        \* the chain-query service: height -> answer of client.Block
    config,       \* the CalculatorConfig the calculator was built with
    ctx,          \* the context handed in: "background", "live" or "cancelled"
    pc,           \* position of the goroutine running GetBlockRange
    height,       \* loop variable of the launch loop
    i,            \* loop variable of the barrier loop
    semaphore,    \* number of tokens held in the semaphore channel
    running,      \* heights whose goroutine was launched and has not terminated
    blockChan,    \* contents of blockChan, in arrival order
    errChan,      \* contents of errChan (capacity 1)
    closed,       \* blockChan and errChan have been closed
    panicked,     \* a goroutine sent on a closed channel
    fetch,        \* what GetBlockRange returned
    calc,         \* what CalculateStatsForRange returned
    times,        \* input series of a direct removeOutliers application
    cleanOut,     \* result of that application
    rangeOut,     \* result of calculateStatistics and calculateRange on a series
    analysis,     \* input blocks and result of AnalyzeProposerPatterns
    pred          \* the call of the BlockPredictor and what it returned

vars == <<entry, startHeight, endHeight, chain, config, ctx, pc, height, i,
          semaphore, running, blockChan, errChan, closed, panicked, fetch,
          calc, times, cleanOut, rangeOut, analysis, pred>>

fetchVars == <<pc, height, i, semaphore, running, blockChan, errChan, closed,
               panicked, fetch>>

inputVars == <<entry, startHeight, endHeight, chain, config>>

statsVars == <<times, cleanOut, rangeOut, analysis>>

----------------------------------------------------------------------------
(* Program constants *)

\* const maxConcurrent = 10
maxConcurrent == 10

\* threshold := 3.5 (modified z-score), in tenths
threshold == 35

\* the 0.6745 factor of the modified z-score, in ten-thousandths
zFactor == 6745

\* if len(times) <= 3 { return times, 0 }
minOutlierLen == 3

\* c.config.TrimPercent > 0 && len(cleaned) > 10
minTrimLen == 10

\* if len(times) >= 5 { // Need at least 5 blocks for meaningful stats
minProposerDeltas == 5

----------------------------------------------------------------------------
(* Bounds of the model *)

\* highest height of the short ranges, explored with every service answer
MaxSmall == 3

\* the long ranges are 1 .. maxConcurrent + k for k in 1 .. MaxOver
MaxOver == 1

\* length of the range of the statistics scenario
CalcLen == 5

\* longest series handed directly to removeOutliers
MaxLen == 5

\* longest block list handed directly to AnalyzeProposerPatterns
MaxBlocks == 7

\* highest chain head of the predictor's chains
MaxHead == 4

\* how far beyond the head a target height can lie
MaxAhead == 2

\* highest count handed to PredictNextBlocks
MaxCount == 3

\* the long series have minTrimLen .. minTrimLen + MaxTrimOver deltas
MaxTrimOver == 2

----------------------------------------------------------------------------
(* Errors *)

NoError == [kind |-> "nil", height |-> 0]

\* fmt.Errorf("invalid range: ...")
InvalidRange == [kind |-> "InvalidRange", height |-> 0]

\* ctx.Err()
Cancelled == [kind |-> "Cancelled", height |-> 0]

\* fmt.Errorf("failed to get block %d: %w", h, err)
GetBlockFailed(h) == [kind |-> "GetBlockFailed", height |-> h]

\* fmt.Errorf("insufficient sample size ...") / ("insufficient valid block times ...")
InsufficientSample == [kind |-> "InsufficientSample", height |-> 0]

\* fmt.Errorf("failed to get status: %w", err)
StatusFailed == [kind |-> "StatusFailed", height |-> 0]

\* fmt.Errorf("nil block result at height %d", height)
NilBlockResult(h) == [kind |-> "NilBlockResult", height |-> h]

\* fmt.Errorf("count must be positive")
CountNotPositive == [kind |-> "CountNotPositive", height |-> 0]

----------------------------------------------------------------------------
(* Sorting *)

Swap(s, a, b) == [s EXCEPT ![a] = s[b], ![b] = s[a]]

\* the inner loop with its comparison turned round
RECURSIVE SortInnerDescending(_, _, _)
SortInnerDescending(s, a, b) ==
    IF b > Len(s) THEN s
    ELSE SortInnerDescending(
             IF s[a].Height < s[b].Height THEN Swap(s, a, b) ELSE s, a, b + 1)

\* inner loop of the sort of tmBlocks: for j := i + 1; j < len; j++
RECURSIVE SortInner(_, _, _)
SortInner(s, a, b) ==
    IF b > Len(s) THEN s
    ELSE SortInner(IF s[a].Height > s[b].Height THEN Swap(s, a, b) ELSE s,
                   a, b + 1)

\* outer loop: for i := 0; i < len - 1; i++
RECURSIVE SortOuter(_, _)
SortOuter(s, a) ==
    IF a >= Len(s) THEN s ELSE SortOuter(SortInner(s, a, a + 1), a + 1)

\* "Sort blocks by height"
SortByHeight(s) == SortOuter(s, 1)

\* insertion of v into an ascending sequence
RECURSIVE InsertSorted(_, _)
InsertSorted(s, v) ==
    IF s = <<>> THEN <<v>>
    ELSE IF v <= Head(s) THEN <<v>> \o s
    ELSE <<Head(s)>> \o InsertSorted(Tail(s), v)

\* sort.Float64s: ascending order, duplicates kept
RECURSIVE SortFloat64s(_)
SortFloat64s(s) ==
    IF s = <<>> THEN <<>> ELSE InsertSorted(SortFloat64s(Tail(s)), Head(s))

----------------------------------------------------------------------------
(* percentile(sorted, pn/pd), returned multiplied by pd *)

\* a percentile that takes the element at the floor of the index
percentileNearestRank(sorted, pn, pd) ==
    IF Len(sorted) = 0 THEN 0
    ELSE IF pn <= 0 THEN pd * sorted[1]
    ELSE IF pn >= pd THEN pd * sorted[Len(sorted)]
    ELSE pd * sorted[((pn * (Len(sorted) - 1)) \div pd) + 1]

percentile(sorted, pn, pd) ==
    IF Len(sorted) = 0 THEN 0
    ELSE IF pn <= 0 THEN pd * sorted[1]
    ELSE IF pn >= pd THEN pd * sorted[Len(sorted)]
    ELSE LET index == pn * (Len(sorted) - 1)     \* times pd
             lower == index \div pd              \* math.Floor(index)
             rest  == index % pd                 \* weight, times pd
             upper == IF rest = 0 THEN lower ELSE lower + 1   \* math.Ceil
         IN  IF lower = upper THEN pd * sorted[lower + 1]
             ELSE sorted[lower + 1] * (pd - rest) + sorted[upper + 1] * rest

Abs(x) == IF x < 0 THEN 0 - x ELSE x

----------------------------------------------------------------------------
(* Outlier removal.  Both operators return [cleaned, outlierCount]. *)

\* the loop of removeOutliersIQR over the sorted values; q1 and q3 are
\* carried times 4, OutlierThreshold in tenths, so every bound is times 40
\* an IQR test whose fences are not part of what it keeps
removeOutliersIQRStrict(cfg, sorted) ==
    LET q1  == percentile(sorted, 1, 4)
        q3  == percentile(sorted, 3, 4)
        iqr == q3 - q1
        lowerBound == 10 * q1 - cfg.OutlierThreshold * iqr
        upperBound == 10 * q3 + cfg.OutlierThreshold * iqr
        Keep(v) == 40 * v > lowerBound /\ 40 * v < upperBound
    IN  [cleaned      |-> SelectSeq(sorted, Keep),
         outlierCount |-> Cardinality({k \in 1..Len(sorted) : ~Keep(sorted[k])})]

removeOutliersIQR(cfg, sorted) ==
    LET q1  == percentile(sorted, 1, 4)
        q3  == percentile(sorted, 3, 4)
        iqr == q3 - q1
        lowerBound == 10 * q1 - cfg.OutlierThreshold * iqr
        upperBound == 10 * q3 + cfg.OutlierThreshold * iqr
        Keep(v) == 40 * v >= lowerBound /\ 40 * v <= upperBound
    IN  [cleaned      |-> SelectSeq(sorted, Keep),
         outlierCount |-> Cardinality({k \in 1..Len(sorted) : ~Keep(sorted[k])})]

\* a trimming that does not ask for more than 10 cleaned values
applyTrimAnyLength(cfg, r) ==
    IF cfg.TrimPercent > 0
    THEN LET trimCount == (Len(r.cleaned) * cfg.TrimPercent) \div 100
         IN  IF trimCount > 0
             THEN [cleaned      |-> SubSeq(SortFloat64s(r.cleaned), trimCount + 1,
                                           Len(r.cleaned) - trimCount),
                   outlierCount |-> r.outlierCount + trimCount * 2]
             ELSE r
    ELSE r

\* a trimming that counts the values cut at one end only
applyTrimCountsOneEnd(cfg, r) ==
    IF cfg.TrimPercent > 0 /\ Len(r.cleaned) > minTrimLen
    THEN LET trimCount == (Len(r.cleaned) * cfg.TrimPercent) \div 100
         IN  IF trimCount > 0
             THEN [cleaned      |-> SubSeq(SortFloat64s(r.cleaned), trimCount + 1,
                                           Len(r.cleaned) - trimCount),
                   outlierCount |-> r.outlierCount + trimCount]
             ELSE r
    ELSE r

\* "Apply trimming if configured"; TrimPercent is in hundredths, and for
\* fewer than 100 values the quotient is int(float64(len(cleaned)) * TrimPercent)
applyTrim(cfg, r) ==
    IF cfg.TrimPercent > 0 /\ Len(r.cleaned) > minTrimLen
    THEN LET trimCount == (Len(r.cleaned) * cfg.TrimPercent) \div 100
         IN  IF trimCount > 0
             THEN [cleaned      |-> SubSeq(SortFloat64s(r.cleaned), trimCount + 1,
                                           Len(r.cleaned) - trimCount),
                   outlierCount |-> r.outlierCount + trimCount * 2]
             ELSE r
    ELSE r

\* 2 * median of the series
median2(sorted) == percentile(sorted, 1, 2)

\* 4 * MAD of the series: the deviations |v - median| are carried times 2
mad4(sorted) ==
    LET deviations == [k \in 1..Len(sorted) |-> Abs(2 * sorted[k] - median2(sorted))]
    IN  percentile(SortFloat64s(deviations), 1, 2)

\* a z-score test with the comparison turned round: it keeps the outliers
zScoreKeepsReversed(sorted, v) ==
    /\ mad4(sorted) # 0
    /\ zFactor * 2 * Abs(2 * v - median2(sorted)) > 1000 * threshold * mad4(sorted)

\* math.Abs(0.6745 * (v - median) / mad) <= 3.5, cleared of its fractions;
\* with mad = 0 the quotient is an infinity or a NaN, which is never <= 3.5
zScoreKeeps(sorted, v) ==
    /\ mad4(sorted) # 0
    /\ zFactor * 2 * Abs(2 * v - median2(sorted)) <= 1000 * threshold * mad4(sorted)

\* the modified z-score loop over the values in their input order, then
\* the trimming
zScoreFilter(cfg, ts, sorted) ==
    LET Keep(v) == zScoreKeeps(sorted, v)
    IN  applyTrim(cfg,
            [cleaned      |-> SelectSeq(ts, Keep),
             outlierCount |-> Cardinality({k \in 1..Len(ts) : ~Keep(ts[k])})])

\* a MAD branch that runs the z-score test whatever the MAD is
removeOutliersMADNoFallback(cfg, ts, sorted) == zScoreFilter(cfg, ts, sorted)

\* the UseMedianAbsolute branch: "If MAD is 0, use IQR method as fallback"
removeOutliersMAD(cfg, ts, sorted) ==
    IF mad4(sorted) = 0
    THEN removeOutliersIQR(cfg, sorted)
    ELSE zScoreFilter(cfg, ts, sorted)

\* removeOutliers past its length guard
removeOutliersSorted(cfg, ts) ==
    LET sorted == SortFloat64s(ts)
    IN  IF cfg.UseMedianAbsolute
        THEN removeOutliersMAD(cfg, ts, sorted)
        ELSE removeOutliersIQR(cfg, sorted)

\* a removeOutliers without the guard on short series
removeOutliersNoGuard(cfg, ts) == removeOutliersSorted(cfg, ts)

removeOutliers(cfg, ts) ==
    IF Len(ts) <= minOutlierLen THEN [cleaned |-> ts, outlierCount |-> 0]
    ELSE removeOutliersSorted(cfg, ts)

----------------------------------------------------------------------------
(* calculateStatistics: every value is in hundredths of a second; the mean *)
(* is Sum / Count.                                                         *)

RECURSIVE SumSeq(_)
SumSeq(s) == IF s = <<>> THEN 0 ELSE Head(s) + SumSeq(Tail(s))

ZeroStats == [Count |-> 0, Min |-> 0, Max |-> 0, Median |-> 0, P25 |-> 0,
              P75 |-> 0, P95 |-> 0, P99 |-> 0, Sum |-> 0]

calculateStatistics(ts) ==
    IF Len(ts) = 0 THEN ZeroStats
    ELSE LET sorted == SortFloat64s(ts)
         IN  [Count  |-> Len(ts),
              Min    |-> 100 * sorted[1],
              Max    |-> 100 * sorted[Len(sorted)],
              Median |-> percentile(sorted, 50, 100),
              P25    |-> percentile(sorted, 25, 100),
              P75    |-> percentile(sorted, 75, 100),
              P95    |-> percentile(sorted, 95, 100),
              P99    |-> percentile(sorted, 99, 100),
              Sum    |-> 100 * SumSeq(ts)]

----------------------------------------------------------------------------
(* GetBlockRange *)

Returned(err, blocks) == [returned |-> TRUE, err |-> err, blocks |-> blocks]

NotReturned == [returned |-> FALSE, err |-> NoError, blocks |-> <<>>]

\* "Convert to BlockInfo and calculate block times"
ToBlockInfo(tmBlocks) ==
    [k \in 1..Len(tmBlocks) |->
        [Height    |-> tmBlocks[k].Height,
         Time      |-> tmBlocks[k].Time,
         BlockTime |-> IF k > 1 THEN tmBlocks[k].Time - tmBlocks[k - 1].Time
                       ELSE 0]]

\* a range check that lets start = end + 1 through
RangeInvalidOffByOne(s, e) == s > e + 1

\* if startHeight > endHeight
RangeInvalid(s, e) == s > e

\* the range check and the creation of the channels
Begin ==
    /\ pc = "begin"
    /\ IF RangeInvalid(startHeight, endHeight)
       THEN /\ fetch' = Returned(InvalidRange, <<>>)
            /\ pc' = "done"
            /\ UNCHANGED height
       ELSE /\ height' = startHeight
            /\ pc' = "loop"
            /\ UNCHANGED fetch
    /\ UNCHANGED <<i, semaphore, running, blockChan, errChan, closed, panicked>>
    /\ UNCHANGED <<inputVars, ctx, calc, statsVars, pred>>

\* a launch loop that never looks at ctx.Done()
CheckDoneIgnoresCancel ==
    /\ pc = "loop"
    /\ IF height > endHeight
       THEN /\ pc' = "barrier"
            /\ i' = 0
       ELSE /\ pc' = "acquire"
            /\ UNCHANGED i
    /\ UNCHANGED <<height, semaphore, running, blockChan, errChan, closed,
                   panicked, fetch>>
    /\ UNCHANGED <<inputVars, ctx, calc, statsVars, pred>>

\* the loop condition and the select on ctx.Done()
CheckDone ==
    /\ pc = "loop"
    /\ IF height > endHeight
       THEN /\ pc' = "barrier"
            /\ i' = 0
            /\ UNCHANGED fetch
       ELSE IF ctx = "cancelled"
       THEN /\ fetch' = Returned(Cancelled, <<>>)
            /\ pc' = "done"
            /\ UNCHANGED i
       ELSE /\ pc' = "acquire"
            /\ UNCHANGED <<i, fetch>>
    /\ UNCHANGED <<height, semaphore, running, blockChan, errChan, closed, panicked>>
    /\ UNCHANGED <<inputVars, ctx, calc, statsVars, pred>>

\* a semaphore send that never waits for a free slot
CanAcquireAlways == TRUE

\* semaphore <- struct{}{} can proceed
CanAcquire == semaphore < maxConcurrent

\* semaphore <- struct{}{}; go func(h) {...}(height); height++
Launch ==
    /\ pc = "acquire"
    /\ CanAcquire
    /\ semaphore' = semaphore + 1
    /\ running' = running \cup {height}
    /\ height' = height + 1
    /\ pc' = "loop"
    /\ UNCHANGED <<i, blockChan, errChan, closed, panicked, fetch>>
    /\ UNCHANGED <<inputVars, ctx, calc, statsVars, pred>>

\* a failing goroutine that reports nothing
SendErrorLost(ch, e) == ch

\* a send that replaces the error already in the slot
SendErrorOverwrite(ch, e) == <<e>>

\* the non-blocking send on errChan: dropped when the slot is taken
SendError(ch, e) == IF Len(ch) < 1 THEN Append(ch, e) ELSE ch

\* the goroutine of height h, from the return of client.Block to its
\* deferred release of the semaphore; neither send can block (blockChan has
\* room for every height, the send on errChan has a default case)
Task(h) ==
    /\ h \in running
    /\ LET answer == chain[h] IN
       /\ errChan' = IF answer.kind = "error"
                     THEN SendError(errChan, GetBlockFailed(h))
                     ELSE errChan
       /\ blockChan' = IF answer.kind = "block"
                       THEN Append(blockChan, [Height |-> h, Time |-> answer.Time])
                       ELSE blockChan
       /\ panicked' = (panicked \/ (closed /\ answer.kind # "nilblock"))
    /\ semaphore' = semaphore - 1
    /\ running' = running \ {h}
    /\ UNCHANGED <<pc, height, i, closed, fetch>>
    /\ UNCHANGED <<inputVars, ctx, calc, statsVars, pred>>

\* a reacquire loop that asks for one slot more than the capacity
BarrierOneTooMany ==
    /\ pc = "barrier"
    /\ IF i <= maxConcurrent
       THEN /\ CanAcquire
            /\ semaphore' = semaphore + 1
            /\ i' = i + 1
            /\ UNCHANGED pc
       ELSE /\ pc' = "collect"
            /\ UNCHANGED <<semaphore, i>>
    /\ UNCHANGED <<height, running, blockChan, errChan, closed, panicked, fetch>>
    /\ UNCHANGED <<inputVars, ctx, calc, statsVars, pred>>

\* a reacquire loop that stops one slot short of the capacity
BarrierShort ==
    /\ pc = "barrier"
    /\ IF i < maxConcurrent - 1
       THEN /\ CanAcquire
            /\ semaphore' = semaphore + 1
            /\ i' = i + 1
            /\ UNCHANGED pc
       ELSE /\ pc' = "collect"
            /\ UNCHANGED <<semaphore, i>>
    /\ UNCHANGED <<height, running, blockChan, errChan, closed, panicked, fetch>>
    /\ UNCHANGED <<inputVars, ctx, calc, statsVars, pred>>

\* "Wait for all goroutines to complete": one pass of the reacquire loop
Barrier ==
    /\ pc = "barrier"
    /\ IF i < maxConcurrent
       THEN /\ CanAcquire
            /\ semaphore' = semaphore + 1
            /\ i' = i + 1
            /\ UNCHANGED pc
       ELSE /\ pc' = "collect"
            /\ UNCHANGED <<semaphore, i>>
    /\ UNCHANGED <<height, running, blockChan, errChan, closed, panicked, fetch>>
    /\ UNCHANGED <<inputVars, ctx, calc, statsVars, pred>>

\* close the channels, check the error slot, collect, sort, convert, return
Collect ==
    /\ pc = "collect"
    /\ closed' = TRUE
    /\ fetch' = IF errChan # <<>>
                THEN Returned(Head(errChan), <<>>)
                ELSE Returned(NoError, ToBlockInfo(SortByHeight(blockChan)))
    /\ errChan' = IF errChan # <<>> THEN Tail(errChan) ELSE errChan
    /\ blockChan' = IF errChan # <<>> THEN blockChan ELSE <<>>
    /\ pc' = "done"
    /\ UNCHANGED <<height, i, semaphore, running, panicked>>
    /\ UNCHANGED <<inputVars, ctx, calc, statsVars, pred>>

\* the caller's context is cancelled while the fetch is under way
Cancel ==
    /\ ctx = "live"
    /\ pc \in {"begin", "loop", "acquire", "barrier", "collect"}
    /\ ctx' = "cancelled"
    /\ UNCHANGED <<inputVars, fetchVars, calc, statsVars, pred>>

----------------------------------------------------------------------------
(* calculateRange: lower, upper and typical in 1/38000 of a second          *)
(* (hundredths, times 2 for the half IQR, times 190 for the adjustment     *)
(* (upper - lower) * (1 - ConfidenceLevel / 0.95) / 2).                    *)

MaxOf(a, b) == IF a >= b THEN a ELSE b

MinOf(a, b) == IF a <= b THEN a ELSE b

\* a range whose lower bound has neither the floor at Min nor the one at 0
calculateRangeNoFloor(cfg, ts, stats) ==
    IF Len(ts) = 0 THEN [Lower |-> 0, Upper |-> 0, Typical |-> 0]
    ELSE LET iqr    == stats.P75 - stats.P25
             lower  == 2 * stats.P25 - iqr
             upper  == MinOf(2 * stats.P75 + iqr, 2 * stats.P95)
             adjust == IF cfg.ConfidenceLevel < 95
                       THEN (upper - lower) * (95 - cfg.ConfidenceLevel)
                       ELSE 0
         IN  [Lower   |-> 190 * lower + adjust,
              Upper   |-> 190 * upper - adjust,
              Typical |-> 2 * 190 * stats.Median]

\* a range narrowed by the whole adjustment on each side, not by half of it
calculateRangeFullAdjust(cfg, ts, stats) ==
    IF Len(ts) = 0 THEN [Lower |-> 0, Upper |-> 0, Typical |-> 0]
    ELSE LET iqr    == stats.P75 - stats.P25
             lower  == MaxOf(2 * stats.P25 - iqr, 2 * stats.Min)
             upper  == MinOf(2 * stats.P75 + iqr, 2 * stats.P95)
             adjust == IF cfg.ConfidenceLevel < 95
                       THEN 2 * (upper - lower) * (95 - cfg.ConfidenceLevel)
                       ELSE 0
         IN  [Lower   |-> MaxOf(190 * lower + adjust, 0),
              Upper   |-> 190 * upper - adjust,
              Typical |-> 2 * 190 * stats.Median]

\* a range whose upper bound is not capped by P95
calculateRangeUncapped(cfg, ts, stats) ==
    IF Len(ts) = 0 THEN [Lower |-> 0, Upper |-> 0, Typical |-> 0]
    ELSE LET iqr    == stats.P75 - stats.P25
             lower  == MaxOf(2 * stats.P25 - iqr, 2 * stats.Min)
             upper  == 2 * stats.P75 + iqr
             adjust == IF cfg.ConfidenceLevel < 95
                       THEN (upper - lower) * (95 - cfg.ConfidenceLevel)
                       ELSE 0
         IN  [Lower   |-> MaxOf(190 * lower + adjust, 0),
              Upper   |-> 190 * upper - adjust,
              Typical |-> 2 * 190 * stats.Median]

calculateRange(cfg, ts, stats) ==
    IF Len(ts) = 0 THEN [Lower |-> 0, Upper |-> 0, Typical |-> 0]
    ELSE LET iqr    == stats.P75 - stats.P25
             lower  == MaxOf(2 * stats.P25 - iqr, 2 * stats.Min)
             upper  == MinOf(2 * stats.P75 + iqr, 2 * stats.P95)
             adjust == IF cfg.ConfidenceLevel < 95
                       THEN (upper - lower) * (95 - cfg.ConfidenceLevel)
                       ELSE 0
         IN  [Lower   |-> MaxOf(190 * lower + adjust, 0),
              Upper   |-> 190 * upper - adjust,
              Typical |-> 2 * 190 * stats.Median]

----------------------------------------------------------------------------
(* CalculateStatsForRange *)

\* "Calculate block times": the positive differences of consecutive samples
\* a delta loop that keeps a difference of zero
BlockTimesNonNegative(blocks) ==
    LET diffs == [k \in 1..(Len(blocks) - 1) |-> blocks[k + 1].Time - blocks[k].Time]
        NonNegative(d) == d >= 0
    IN  SelectSeq(diffs, NonNegative)

BlockTimes(blocks) ==
    LET diffs == [k \in 1..(Len(blocks) - 1) |-> blocks[k + 1].Time - blocks[k].Time]
        Positive(d) == d > 0
    IN  SelectSeq(diffs, Positive)

CalcIdle == [pc |-> "idle", err |-> NoError, blockTimes |-> <<>>,
             cleanedTimes |-> <<>>, stats |-> ZeroStats]

CalcFailed(err) == [CalcIdle EXCEPT !.pc = "done", !.err = err]

\* "Validate range": if startHeight > endHeight
CalcRangeInvalid(s, e) == s > e

\* if sampleSize < c.config.MinSampleSize
RangeTooShort(cfg, s, e) == e - s + 1 < cfg.MinSampleSize

\* a check of the valid block times that never fails
TooFewBlockTimesNever(cfg, blockTimes) == FALSE

\* if len(blockTimes) < c.config.MinSampleSize
TooFewBlockTimes(cfg, blockTimes) == Len(blockTimes) < cfg.MinSampleSize

\* the two checks made before the fetch, and the call of GetBlockRange
CalcStart ==
    /\ calc.pc = "start"
    /\ IF CalcRangeInvalid(startHeight, endHeight)
       THEN calc' = CalcFailed(InvalidRange) /\ UNCHANGED pc
       ELSE IF RangeTooShort(config, startHeight, endHeight)
       THEN calc' = CalcFailed(InsufficientSample) /\ UNCHANGED pc
       ELSE calc' = [calc EXCEPT !.pc = "fetch"] /\ pc' = "begin"
    /\ UNCHANGED <<height, i, semaphore, running, blockChan, errChan, closed,
                   panicked, fetch>>
    /\ UNCHANGED <<inputVars, ctx, statsVars, pred>>

\* the summary built from the fetched blocks
Summary(blocks) ==
    LET blockTimes == BlockTimes(blocks)
        r          == removeOutliers(config, blockTimes)
        stats      == calculateStatistics(r.cleaned)
    IN  [pc           |-> "done",
         err          |-> NoError,
         blockTimes   |-> blockTimes,
         cleanedTimes |-> r.cleaned,
         stats        |-> stats @@
             [SampleSize      |-> Len(blockTimes),
              StartHeight     |-> startHeight,
              EndHeight       |-> endHeight,
              StartTime       |-> blocks[1].Time,
              EndTime         |-> blocks[Len(blocks)].Time,
              OutlierCount    |-> r.outlierCount,
              ConfidenceLevel |-> config.ConfidenceLevel,
              EstimatedRange  |-> calculateRange(config, r.cleaned, stats)]]

\* everything after GetBlockRange has returned
CalcFinish ==
    /\ calc.pc = "fetch"
    /\ fetch.returned
    /\ calc' = IF fetch.err # NoError
               THEN CalcFailed(fetch.err)
               ELSE IF Len(fetch.blocks) = 0
               THEN [CalcIdle EXCEPT !.pc = "panic"]   \* make(..., 0, -1)
               ELSE IF TooFewBlockTimes(config, BlockTimes(fetch.blocks))
               THEN [CalcFailed(InsufficientSample) EXCEPT
                        !.blockTimes = BlockTimes(fetch.blocks)]
               ELSE Summary(fetch.blocks)
    /\ UNCHANGED <<inputVars, ctx, fetchVars, statsVars, pred>>

----------------------------------------------------------------------------
(* AnalyzeProposerPatterns *)

\* the loop of lines 317-322 for one proposer: the positive BlockTime of
\* every block after the first that this proposer proposed, in order
RECURSIVE proposerTimes(_, _, _)
proposerTimes(blocks, proposer, k) ==
    IF k > Len(blocks) THEN <<>>
    ELSE IF blocks[k].BlockTime > 0 /\ blocks[k].Proposer = proposer
    THEN <<blocks[k].BlockTime>> \o proposerTimes(blocks, proposer, k + 1)
    ELSE proposerTimes(blocks, proposer, k + 1)

\* the keys of proposerBlocks: a proposer gets a key with its first delta
proposerKeys(blocks) ==
    {blocks[k].Proposer : k \in {j \in 2..Len(blocks) : blocks[j].BlockTime > 0}}

\* a threshold that asks for more than 5 deltas
enoughDeltasStrict(ts) == Len(ts) > minProposerDeltas

\* if len(times) >= 5
enoughDeltas(ts) == Len(ts) >= minProposerDeltas

\* the statistics of one proposer
proposerSummary(cfg, ts) ==
    LET r == removeOutliers(cfg, ts)
    IN  [stats        |-> calculateStatistics(r.cleaned),
         OutlierCount |-> r.outlierCount,
         SampleSize   |-> Len(ts)]

\* the map AnalyzeProposerPatterns returns
AnalyzeProposerPatterns(cfg, blocks) ==
    LET kept == {q \in proposerKeys(blocks) :
                    enoughDeltas(proposerTimes(blocks, q, 2))}
    IN  [q \in kept |-> proposerSummary(cfg, proposerTimes(blocks, q, 2))]

----------------------------------------------------------------------------
(* The operations that have not been called *)

\* no series has been summarised
RangeIdle == [applied |-> FALSE, series |-> <<>>, stats |-> ZeroStats,
              range |-> [Lower |-> 0, Upper |-> 0, Typical |-> 0]]

\* AnalyzeProposerPatterns has not been called
AnalysisIdle == [applied |-> FALSE, blocks |-> <<>>, result |-> <<>>]

\* the BlockPredictor has not been called
PredIdle == [pc |-> "idle", targetHeight |-> 0, count |-> 0,
             currentHeight |-> 0, now |-> 0, calls |-> <<>>,
             err |-> NoError, result |-> <<>>]

----------------------------------------------------------------------------
(* BlockPredictor (internal/calculator/predictor.go).                      *)
(* Instants and durations are in the unit of the estimated range, 1/38000  *)
(* of a second; the truncation of a duration to whole nanoseconds is below *)
(* that resolution.  A time.Time or a pointer is a sequence: empty for the *)
(* zero value or nil, of one element otherwise.  The chain does not grow   *)
(* while a prediction is computed.                                         *)

\* number of units of the estimated range in a second
RangeUnit == 2 * 190 * 100

\* a timestamp in whole seconds as an instant
Instant(t) == RangeUnit * t

\* status.SyncInfo.LatestBlockHeight
LatestHeight ==
    IF DOMAIN chain = {} THEN 0
    ELSE CHOOSE h \in DOMAIN chain : \A k \in DOMAIN chain : k <= h

StatusCall == [call |-> "Status", height |-> 0]

BlockCall(h) == [call |-> "Block", height |-> h]

\* GetBlockByHeight: the node's error, a nil block result, or the BlockInfo
GetBlockByHeight(h) ==
    IF h \notin DOMAIN chain THEN [err |-> GetBlockFailed(h), Time |-> 0]
    ELSE IF chain[h].kind = "error" THEN [err |-> GetBlockFailed(h), Time |-> 0]
    ELSE IF chain[h].kind = "nilblock" THEN [err |-> NilBlockResult(h), Time |-> 0]
    ELSE [err |-> NoError, Time |-> chain[h].Time]

\* a test that sends the current height down the forward-looking path
targetReachedStrict(target, current) == target < current

\* if targetHeight <= currentHeight
targetReached(target, current) == target <= current

\* the BlockPrediction of a target that has been reached
completedPrediction(target, current, blockTime) ==
    [TargetHeight    |-> target,
     CurrentHeight   |-> current,
     BlocksLeft      |-> 0,
     CurrentTime     |-> <<>>,
     CurrentBlockAge |-> 0,
     EstimatedTime   |-> <<>>,
     OptimisticTime  |-> <<>>,
     PessimisticTime |-> <<>>,
     Duration        |-> [Typical |-> 0, Min |-> 0, Max |-> 0],
     BlockTimeStats  |-> <<>>,
     ConfidenceLevel |-> 0,
     IsComplete      |-> TRUE,
     ActualTime      |-> <<Instant(blockTime)>>]

\* a prediction projected from the current block's timestamp
blockPredictionFromBlock(target, current, now, blockTime, stats) ==
    LET blocksLeft == target - current
        typical    == blocksLeft * stats.EstimatedRange.Typical
        optimistic == blocksLeft * stats.EstimatedRange.Lower
        pessimist  == blocksLeft * stats.EstimatedRange.Upper
    IN  [TargetHeight    |-> target,
         CurrentHeight   |-> current,
         BlocksLeft      |-> blocksLeft,
         CurrentTime     |-> <<Instant(now)>>,
         CurrentBlockAge |-> Instant(now) - Instant(blockTime),
         EstimatedTime   |-> <<Instant(blockTime) + typical>>,
         OptimisticTime  |-> <<Instant(blockTime) + optimistic>>,
         PessimisticTime |-> <<Instant(blockTime) + pessimist>>,
         Duration        |-> [Typical |-> typical, Min |-> optimistic,
                              Max |-> pessimist],
         BlockTimeStats  |-> <<stats>>,
         ConfidenceLevel |-> stats.ConfidenceLevel,
         IsComplete      |-> FALSE,
         ActualTime      |-> <<>>]

\* the BlockPrediction of a future target (lines 57-103)
blockPrediction(target, current, now, blockTime, stats) ==
    LET blocksLeft == target - current
        typical    == blocksLeft * stats.EstimatedRange.Typical
        optimistic == blocksLeft * stats.EstimatedRange.Lower
        pessimist  == blocksLeft * stats.EstimatedRange.Upper
    IN  [TargetHeight    |-> target,
         CurrentHeight   |-> current,
         BlocksLeft      |-> blocksLeft,
         CurrentTime     |-> <<Instant(now)>>,
         CurrentBlockAge |-> Instant(now) - Instant(blockTime),
         EstimatedTime   |-> <<Instant(now) + typical>>,
         OptimisticTime  |-> <<Instant(now) + optimistic>>,
         PessimisticTime |-> <<Instant(now) + pessimist>>,
         Duration        |-> [Typical |-> typical, Min |-> optimistic,
                              Max |-> pessimist],
         BlockTimeStats  |-> <<stats>>,
         ConfidenceLevel |-> stats.ConfidenceLevel,
         IsComplete      |-> FALSE,
         ActualTime      |-> <<>>]

\* a count check that lets 0 through
countInvalidNegativeOnly(count) == count < 0

\* if count <= 0
countInvalid(count) == count <= 0

\* a milestone numbered from 0: blocksAhead := int64(i)
blockMilestoneZeroBased(current, now, stats, k) ==
    [Height        |-> current + k,
     BlocksFromNow |-> k,
     EstimatedTime |-> <<Instant(now) + k * stats.EstimatedRange.Typical>>,
     Duration      |-> k * stats.EstimatedRange.Typical]

\* predictions[k] of the loop, k = i of the code counted from 0
blockMilestone(current, now, stats, k) ==
    LET blocksAhead == k + 1
        typical     == blocksAhead * stats.EstimatedRange.Typical
    IN  [Height        |-> current + blocksAhead,
         BlocksFromNow |-> blocksAhead,
         EstimatedTime |-> <<Instant(now) + typical>>,
         Duration      |-> typical]

\* the MultiBlockPrediction (lines 130-158)
multiBlockPrediction(count, current, now, blockTime, stats) ==
    [CurrentHeight   |-> current,
     CurrentTime     |-> <<Instant(now)>>,
     CurrentBlockAge |-> Instant(now) - Instant(blockTime),
     Predictions     |-> [k \in 1..count |->
                             blockMilestone(current, now, stats, k - 1)],
     BlockTimeStats  |-> <<stats>>]

\* the predictor returns an error
PredFailed(err, calls) ==
    [pred EXCEPT !.pc = "done", !.err = err, !.calls = @ \o calls]

\* what time.Now() can return
Clock == {100, 101}

----------------------------------------------------------------------------
(* Inputs *)

Kinds == {"block", "nilblock", "error"}

\* DefaultConfig()
DefaultConfig == [SampleSize |-> 100, OutlierThreshold |-> 15,
                  ConfidenceLevel |-> 95, MinSampleSize |-> 30,
                  TrimPercent |-> 5, UseMedianAbsolute |-> TRUE]

\* timestamp of height h when gap[k] seconds separate block k from block k - 1
RECURSIVE TimeAt(_, _, _)
TimeAt(gap, s, h) == IF h < s THEN 0 ELSE TimeAt(gap, s, h - 1) + gap[h]

\* the answers of a node for the heights s .. e: no block exists below height 1
Chains(s, e, kinds, gaps) ==
    { [h \in s..e |-> [kind |-> IF h < 1 THEN "error" ELSE k[h],
                       Time |-> TimeAt(g, s, h)]] :
        k \in [s..e -> kinds], g \in [s..e -> gaps] }

\* short ranges (valid or not, down to height 0) with every answer
ShortInit ==
    /\ startHeight \in 0..MaxSmall
    /\ endHeight \in 0..MaxSmall
    /\ chain \in Chains(startHeight, endHeight, Kinds, {1})
    /\ ctx \in {"background", "live"}
    /\ entry \in {"GetBlockRange", "CalculateStatsForRange"}
    /\ config \in IF entry = "GetBlockRange" THEN {DefaultConfig}
                  ELSE {[DefaultConfig EXCEPT !.MinSampleSize = m] : m \in 1..2}

\* ranges longer than the semaphore; only the first height's answer varies
LongInit ==
    /\ startHeight = 1
    /\ endHeight \in (maxConcurrent + 1)..(maxConcurrent + MaxOver)
    /\ \E k \in Kinds :
          chain = [h \in startHeight..endHeight |->
                      [kind |-> IF h = startHeight THEN k ELSE "nilblock",
                       Time |-> h]]
    /\ ctx = "background"
    /\ entry = "GetBlockRange"
    /\ config = DefaultConfig

\* a healthy node, CalcLen blocks, block times of 1 or 50 seconds
CalcInit ==
    /\ startHeight = 1
    /\ endHeight = CalcLen
    /\ chain \in Chains(startHeight, endHeight, {"block"}, {1, 50})
    /\ chain[startHeight].Time = 1
    /\ ctx = "background"
    /\ entry = "CalculateStatsForRange"
    /\ config \in {[DefaultConfig EXCEPT !.MinSampleSize = CalcLen - 1,
                                         !.UseMedianAbsolute = u] : u \in BOOLEAN}

\* seconds between consecutive blocks of a node whose clock stalls or steps
\* back
SkewGaps == {-1, 0, 1, 2}

\* a healthy node whose block timestamps do not always advance
SkewInit ==
    /\ startHeight = 1
    /\ endHeight = MaxSmall
    /\ \E g \in [2..endHeight -> SkewGaps] :
          chain = [h \in startHeight..endHeight |->
                      [kind |-> "block", Time |-> 10 + TimeAt(g, 2, h)]]
    /\ ctx = "background"
    /\ entry = "CalculateStatsForRange"
    /\ config \in {[DefaultConfig EXCEPT !.MinSampleSize = m] : m \in 1..2}

Init ==
    /\ ShortInit \/ LongInit \/ CalcInit \/ SkewInit
    /\ pc = IF entry = "GetBlockRange" THEN "begin" ELSE "idle"
    /\ calc = IF entry = "GetBlockRange" THEN CalcIdle
              ELSE [CalcIdle EXCEPT !.pc = "start"]
    /\ height = 0
    /\ i = 0
    /\ semaphore = 0
    /\ running = {}
    /\ blockChan = <<>>
    /\ errChan = <<>>
    /\ closed = FALSE
    /\ panicked = FALSE
    /\ fetch = NotReturned
    /\ times = <<>>
    /\ cleanOut = [applied |-> FALSE, cleaned |-> <<>>, outlierCount |-> 0]
    /\ rangeOut = RangeIdle
    /\ analysis = AnalysisIdle
    /\ pred = PredIdle

Next ==
    \/ Begin
    \/ CheckDone
    \/ Launch
    \/ \E h \in running : Task(h)
    \/ Barrier
    \/ Collect
    \/ Cancel
    \/ CalcStart
    \/ CalcFinish

Spec == Init /\ [][Next]_vars

----------------------------------------------------------------------------
(* removeOutliers applied directly to a series: the specification of the  *)
(* claims about the function itself.                                       *)

\* the deltas of the series, in seconds
Deltas == {1, 2, 50}

\* every series of at most n deltas
SeriesUpTo(n) == UNION { [1..k -> Deltas] : k \in 0..n }

\* example scenario A of the specification
ScenarioA == <<5, 5, 6, 6, 6, 7, 7, 100>>

\* confidence levels in hundredths, below and above the 0.95 of the code
Confidences == {10, 50, 95, 99}

\* trim percentages in hundredths: none, the default 0.05, and up to the
\* largest ValidateConfig accepts below 0.5
TrimPercents == {0, 5, 10, 20, 49}

\* a series of n deltas around 11 seconds, not in order; the first `spikes`
\* of them are far from the rest (1 second, then 100 seconds); a flat
\* series has the same delta everywhere else, so its MAD is 0
LongSeries(n, spikes, flat) ==
    [k \in 1..n |-> IF k <= spikes THEN (IF k = 1 THEN 1 ELSE 100)
                    ELSE IF flat THEN 11
                    ELSE 10 + ((2 * k) % 3)]

\* removeOutliers (and the summary of what it keeps) on every short series,
\* on scenario A and on series long enough to be trimmed
OutlierInit ==
    /\ entry = "removeOutliers"
    /\ \/ /\ \E n \in minTrimLen..(minTrimLen + MaxTrimOver), spikes \in 0..2,
                flat \in BOOLEAN : times = LongSeries(n, spikes, flat)
          /\ config \in {[DefaultConfig EXCEPT !.UseMedianAbsolute = u,
                                               !.TrimPercent = t,
                                               !.OutlierThreshold = o] :
                             u \in BOOLEAN, t \in TrimPercents, o \in {1, 15}}
       \/ /\ times \in SeriesUpTo(MaxLen)
          /\ config \in {[DefaultConfig EXCEPT !.UseMedianAbsolute = u,
                                               !.TrimPercent = t,
                                               !.OutlierThreshold = o] :
                             u \in BOOLEAN, t \in {0, 5}, o \in {5, 15}}
       \/ /\ times = ScenarioA
          /\ config = DefaultConfig

\* calculateStatistics and calculateRange on every short series of positive
\* deltas, at every confidence level
SummaryInit ==
    /\ entry = "calculateStatistics"
    /\ times \in SeriesUpTo(MaxLen)
    /\ config \in {[DefaultConfig EXCEPT !.ConfidenceLevel = c] :
                       c \in Confidences}

\* the proposers of the block lists
Proposers == {"valA", "valB"}

\* seconds between a block and the one before it; 0 is not a valid delta
BlockGaps == {0, 1}

\* the lists of n blocks GetBlockRange can return: ascending heights,
\* BlockTime the difference to the previous block's time
BlockLists(n) ==
    { [k \in 1..n |-> [Height    |-> k,
                       Time      |-> TimeAt(g, 1, k),
                       BlockTime |-> IF k > 1 THEN g[k] ELSE 0,
                       Proposer  |-> q[k]]] :
        g \in [1..n -> BlockGaps], q \in [1..n -> Proposers] }

\* AnalyzeProposerPatterns on every list of at most MaxBlocks blocks
AnalysisInit ==
    /\ entry = "AnalyzeProposerPatterns"
    /\ times = <<>>
    /\ config = DefaultConfig
    /\ \E n \in 0..MaxBlocks : \E b \in BlockLists(n) :
          analysis = [applied |-> FALSE, blocks |-> b, result |-> <<>>]

StatsInit ==
    /\ \/ (OutlierInit \/ SummaryInit) /\ analysis = AnalysisIdle
       \/ AnalysisInit
    /\ cleanOut = [applied |-> FALSE, cleaned |-> <<>>, outlierCount |-> 0]
    /\ rangeOut = RangeIdle
    /\ pred = PredIdle
    /\ startHeight = 1
    /\ endHeight = 0
    /\ chain = <<>>
    /\ ctx = "background"
    /\ pc = "idle"
    /\ calc = CalcIdle
    /\ height = 0
    /\ i = 0
    /\ semaphore = 0
    /\ running = {}
    /\ blockChan = <<>>
    /\ errChan = <<>>
    /\ closed = FALSE
    /\ panicked = FALSE
    /\ fetch = NotReturned

\* cleaned, outlierCount := c.removeOutliers(times)
ApplyRemoveOutliers ==
    /\ entry = "removeOutliers"
    /\ ~cleanOut.applied
    /\ LET r == removeOutliers(config, times)
       IN  cleanOut' = [applied |-> TRUE, cleaned |-> r.cleaned,
                        outlierCount |-> r.outlierCount]
    /\ UNCHANGED <<inputVars, ctx, fetchVars, calc, times, rangeOut, analysis, pred>>

\* stats := c.calculateStatistics(cleaned); c.calculateRange(cleaned, stats),
\* on the series removeOutliers kept or on a cleaned series given directly
ApplyStatistics ==
    /\ entry \in {"removeOutliers", "calculateStatistics"}
    /\ (entry = "removeOutliers") => cleanOut.applied
    /\ ~rangeOut.applied
    /\ LET cleaned == IF entry = "removeOutliers" THEN cleanOut.cleaned
                      ELSE times
           stats   == calculateStatistics(cleaned)
       IN  rangeOut' = [applied |-> TRUE, series |-> cleaned, stats |-> stats,
                        range |-> calculateRange(config, cleaned, stats)]
    /\ UNCHANGED <<inputVars, ctx, fetchVars, calc, times, cleanOut, analysis,
                   pred>>

\* proposerStats := calc.AnalyzeProposerPatterns(ctx, blocks)
ApplyAnalyze ==
    /\ entry = "AnalyzeProposerPatterns"
    /\ ~analysis.applied
    /\ analysis' = [analysis EXCEPT
                       !.applied = TRUE,
                       !.result = AnalyzeProposerPatterns(config, analysis.blocks)]
    /\ UNCHANGED <<inputVars, ctx, fetchVars, calc, times, cleanOut, rangeOut,
                   pred>>

StatsNext ==
    \/ ApplyRemoveOutliers
    \/ ApplyStatistics
    \/ ApplyAnalyze

SpecStats == StatsInit /\ [][StatsNext]_vars

----------------------------------------------------------------------------
(* The predictor over a small chain: PredictBlockTime and PredictNextBlocks *)
(* with CalculateStats and the range fetch it starts.  runPredict hands in  *)
(* context.Background().                                                    *)

\* start height of CalculateStats: latest - SampleSize + 1, at least 1
\* a start height one block too early: SampleSize + 1 blocks are fetched
statsStartHeightOneMore(cfg, latest) == MaxOf(latest - cfg.SampleSize, 1)

statsStartHeight(cfg, latest) == MaxOf(latest - cfg.SampleSize + 1, 1)

\* chains of heights 1 .. n with at most one height that has no block, and
\* 1 or 2 seconds between consecutive blocks
PredictChains(n) ==
    { [h \in 1..n |-> [kind |-> IF h = bad THEN k ELSE "block",
                       Time |-> TimeAt(g, 1, h)]] :
        bad \in 1..n, k \in Kinds,
        g \in {f \in [1..n -> {1, 2}] : f[1] = 1} }

\* the calculator part of ValidateConfig, which LoadConfig runs on every
\* configuration before it is used
ValidateConfig(cfg) ==
    /\ cfg.SampleSize > 0
    /\ cfg.MinSampleSize > 0
    /\ cfg.MinSampleSize <= cfg.SampleSize
    /\ cfg.OutlierThreshold > 0
    /\ cfg.ConfidenceLevel > 0 /\ cfg.ConfidenceLevel < 100
    /\ cfg.TrimPercent >= 0 /\ cfg.TrimPercent < 50

\* the two operations of the predictor, on a chain of at least one block
PredictorInit ==
    /\ entry \in {"PredictBlockTime", "PredictNextBlocks"}
    /\ \E n \in 1..MaxHead : chain \in PredictChains(n)
    /\ config \in {[DefaultConfig EXCEPT !.SampleSize = n, !.MinSampleSize = 1] :
                       n \in {2, 3}}
    /\ \E t \in 0..(LatestHeight + MaxAhead) : \E c \in (0 - 1)..MaxCount :
          pred = [PredIdle EXCEPT
                     !.pc = "start",
                     !.targetHeight = IF entry = "PredictBlockTime" THEN t ELSE 0,
                     !.count = IF entry = "PredictNextBlocks" THEN c ELSE 0]

\* CalculateStats called directly (the calculate command), on a chain of any
\* length from no block at all, under every configuration of a small
\* SampleSize that ValidateConfig accepts
CalculateStatsInit ==
    /\ entry = "CalculateStats"
    /\ \/ chain = <<>>
       \/ \E n \in 1..MaxHead : chain \in PredictChains(n)
    /\ config \in {c \in {[DefaultConfig EXCEPT !.SampleSize = n,
                                                !.MinSampleSize = m] :
                               n \in {2, 3}, m \in 0..4} : ValidateConfig(c)}
    /\ pred = [PredIdle EXCEPT !.pc = "stats"]

PredictInit ==
    /\ PredictorInit \/ CalculateStatsInit
    /\ ctx = "background"
    /\ startHeight = 0
    /\ endHeight = 0
    /\ pc = "idle"
    /\ calc = CalcIdle
    /\ height = 0
    /\ i = 0
    /\ semaphore = 0
    /\ running = {}
    /\ blockChan = <<>>
    /\ errChan = <<>>
    /\ closed = FALSE
    /\ panicked = FALSE
    /\ fetch = NotReturned
    /\ times = <<>>
    /\ cleanOut = [applied |-> FALSE, cleaned |-> <<>>, outlierCount |-> 0]
    /\ rangeOut = RangeIdle
    /\ analysis = AnalysisIdle

\* PredictBlockTime up to its call of CalculateStats (lines 27-51)
PredictBlockTimeBegin ==
    /\ entry = "PredictBlockTime"
    /\ pred.pc = "start"
    /\ \E ok \in BOOLEAN :
          pred' =
            IF ~ok THEN PredFailed(StatusFailed, <<StatusCall>>)
            ELSE IF targetReached(pred.targetHeight, LatestHeight)
            THEN LET block == GetBlockByHeight(pred.targetHeight)
                 IN  [pred EXCEPT
                        !.pc = "done",
                        !.currentHeight = LatestHeight,
                        !.calls = @ \o <<StatusCall, BlockCall(pred.targetHeight)>>,
                        !.err = block.err,
                        !.result = IF block.err # NoError THEN <<>>
                                   ELSE <<completedPrediction(pred.targetHeight,
                                              LatestHeight, block.Time)>>]
            ELSE [pred EXCEPT !.pc = "stats",
                              !.currentHeight = LatestHeight,
                              !.calls = @ \o <<StatusCall>>]
    /\ UNCHANGED <<inputVars, ctx, fetchVars, calc, statsVars>>

\* PredictNextBlocks up to its call of CalculateStats (lines 107-119)
PredictNextBlocksBegin ==
    /\ entry = "PredictNextBlocks"
    /\ pred.pc = "start"
    /\ \E ok \in BOOLEAN :
          pred' =
            IF countInvalid(pred.count) THEN PredFailed(CountNotPositive, <<>>)
            ELSE IF ~ok THEN PredFailed(StatusFailed, <<StatusCall>>)
            ELSE [pred EXCEPT !.pc = "stats",
                              !.currentHeight = LatestHeight,
                              !.calls = @ \o <<StatusCall>>]
    /\ UNCHANGED <<inputVars, ctx, fetchVars, calc, statsVars>>

\* CalculateStats: the latest height, the start height and the call of
\* CalculateStatsForRange
CalculateStats ==
    /\ pred.pc = "stats"
    /\ pred' = [pred EXCEPT !.pc = "range", !.calls = @ \o <<StatusCall>>]
    /\ \E ok \in BOOLEAN :
          IF ~ok
          THEN /\ calc' = CalcFailed(StatusFailed)
               /\ UNCHANGED <<startHeight, endHeight>>
          ELSE /\ calc' = [CalcIdle EXCEPT !.pc = "start"]
               /\ startHeight' = statsStartHeight(config, LatestHeight)
               /\ endHeight' = LatestHeight
    /\ UNCHANGED <<entry, chain, config, ctx, fetchVars, statsVars>>

\* PredictBlockTime after CalculateStats has returned (lines 52-103)
PredictBlockTimeFinish ==
    /\ entry = "PredictBlockTime"
    /\ pred.pc = "range"
    /\ calc.pc = "done"
    /\ \E now \in Clock :
          pred' =
            IF calc.err # NoError THEN PredFailed(calc.err, <<>>)
            ELSE LET currentBlock == GetBlockByHeight(pred.currentHeight)
                 IN  IF currentBlock.err # NoError
                     THEN PredFailed(currentBlock.err,
                                     <<BlockCall(pred.currentHeight)>>)
                     ELSE [pred EXCEPT
                             !.pc = "done",
                             !.now = now,
                             !.calls = @ \o <<BlockCall(pred.currentHeight)>>,
                             !.result = <<blockPrediction(pred.targetHeight,
                                            pred.currentHeight, now,
                                            currentBlock.Time, calc.stats)>>]
    /\ UNCHANGED <<inputVars, ctx, fetchVars, calc, statsVars>>

\* PredictNextBlocks after CalculateStats has returned (lines 120-158)
PredictNextBlocksFinish ==
    /\ entry = "PredictNextBlocks"
    /\ pred.pc = "range"
    /\ calc.pc = "done"
    /\ \E now \in Clock :
          pred' =
            IF calc.err # NoError THEN PredFailed(calc.err, <<>>)
            ELSE LET currentBlock == GetBlockByHeight(pred.currentHeight)
                 IN  IF currentBlock.err # NoError
                     THEN PredFailed(currentBlock.err,
                                     <<BlockCall(pred.currentHeight)>>)
                     ELSE [pred EXCEPT
                             !.pc = "done",
                             !.now = now,
                             !.calls = @ \o <<BlockCall(pred.currentHeight)>>,
                             !.result = <<multiBlockPrediction(pred.count,
                                            pred.currentHeight, now,
                                            currentBlock.Time, calc.stats)>>]
    /\ UNCHANGED <<inputVars, ctx, fetchVars, calc, statsVars>>

PredictNext ==
    \/ PredictBlockTimeBegin
    \/ PredictNextBlocksBegin
    \/ CalculateStats
    \/ CalcStart
    \/ Begin
    \/ CheckDone
    \/ Launch
    \/ \E h \in running : Task(h)
    \/ Barrier
    \/ Collect
    \/ CalcFinish
    \/ PredictBlockTimeFinish
    \/ PredictNextBlocksFinish

SpecPredict == PredictInit /\ [][PredictNext]_vars

----------------------------------------------------------------------------
(* GetBlockRange under fair scheduling: the calling goroutine keeps taking  *)
(* its next step when it can, and every client.Block call returns, so a     *)
(* launched goroutine eventually runs to its end.  The cancellation of the  *)
(* caller's context is left to the environment.                             *)

\* a range of exactly maxConcurrent heights; only the first answer varies
ExactInit ==
    /\ startHeight = 1
    /\ endHeight = maxConcurrent
    /\ \E k \in Kinds :
          chain = [h \in startHeight..endHeight |->
                      [kind |-> IF h = startHeight THEN k ELSE "nilblock",
                       Time |-> h]]
    /\ ctx \in {"background", "live"}
    /\ entry = "GetBlockRange"
    /\ config = DefaultConfig

\* GetBlockRange called directly, on heights from 1: the short ranges with
\* every answer, a range of exactly maxConcurrent heights and a longer one
LiveInit ==
    /\ ShortInit \/ LongInit \/ ExactInit
    /\ entry = "GetBlockRange"
    /\ startHeight >= 1
    /\ pc = "begin"
    /\ calc = CalcIdle
    /\ height = 0
    /\ i = 0
    /\ semaphore = 0
    /\ running = {}
    /\ blockChan = <<>>
    /\ errChan = <<>>
    /\ closed = FALSE
    /\ panicked = FALSE
    /\ fetch = NotReturned
    /\ times = <<>>
    /\ cleanOut = [applied |-> FALSE, cleaned |-> <<>>, outlierCount |-> 0]
    /\ rangeOut = RangeIdle
    /\ analysis = AnalysisIdle
    /\ pred = PredIdle

\* the steps of the goroutine that runs GetBlockRange
CallerStep ==
    \/ Begin
    \/ CheckDone
    \/ Launch
    \/ Barrier
    \/ Collect

\* a launched goroutine runs to its end
TaskStep == \E h \in running : Task(h)

LiveNext ==
    \/ CallerStep
    \/ TaskStep
    \/ Cancel

\* the Go scheduler runs every goroutine that can take a step, and every
\* call of client.Block returns
SpecLive ==
    /\ LiveInit
    /\ [][LiveNext]_vars
    /\ WF_vars(CallerStep)
    /\ WF_vars(TaskStep)

----------------------------------------------------------------------------
(* Properties *)

\* heights for which a goroutine has been launched
Launched == {h \in startHeight..endHeight : h < height}

\* heights whose goroutine has run to its end
Terminated == Launched \ running

\* heights whose getBlock call has returned an error
FailedHeights == {h \in Terminated : chain[h].kind = "error"}

\* heights whose goroutine has put a block on blockChan
Delivered == {h \in Terminated : chain[h].kind = "block"}

CalcReturned == calc.pc = "done"

SummaryReturned == calc.pc = "done" /\ calc.err = NoError

\* C1: fail-fast, no partial results.  When getBlock fails for a height of
\* the range, a GetBlockRange that returns does so with an error and no
\* block samples, and a CalculateStatsForRange that ends does so with an
\* error and no summary.
C1_FailFast ==
    (\E h \in startHeight..endHeight : chain[h].kind = "error") =>
        /\ fetch.returned => (fetch.err # NoError /\ fetch.blocks = <<>>)
        /\ calc.pc # "panic"
        /\ CalcReturned => (calc.err # NoError /\ calc.stats = ZeroStats
                            /\ calc.cleanedTimes = <<>>)

\* C1 witness: the whole range was fetched, one height failed while another
\* delivered its block, and the caller got the failure and nothing else.
C1_Witness ==
    /\ CalcReturned
    /\ calc.err.kind = "GetBlockFailed"
    /\ fetch.blocks = <<>>
    /\ Delivered # {}
    /\ FailedHeights # {}
    /\ blockChan # <<>>

\* C2: a successful GetBlockRange returns the delivered blocks, each once,
\* strictly ascending by height.
C2_SortedPermutation ==
    (fetch.returned /\ fetch.err = NoError) =>
        /\ \A k \in 1..(Len(fetch.blocks) - 1) :
               fetch.blocks[k].Height < fetch.blocks[k + 1].Height
        /\ {fetch.blocks[k].Height : k \in 1..Len(fetch.blocks)} = Delivered
        /\ Len(fetch.blocks) = Cardinality(Delivered)
        /\ \A k \in 1..Len(fetch.blocks) :
               fetch.blocks[k].Time = chain[fetch.blocks[k].Height].Time

\* C2 witness: three blocks returned in order (whatever order they arrived in).
C2_Witness ==
    /\ fetch.returned
    /\ fetch.err = NoError
    /\ Len(fetch.blocks) >= 3

\* C3 (as claimed): GetBlockRange returns only once every launched
\* goroutine has terminated, on every return path (stated for the ranges of
\* positive heights).
C3_ReturnsAfterJoin ==
    (fetch.returned /\ startHeight >= 1) => running = {}

\* C4: at most maxConcurrent goroutines are launched and not yet terminated.
C4_AtMostKInFlight == Cardinality(running) <= maxConcurrent

\* C4 witness: maxConcurrent goroutines in flight and the next height
\* waiting for a slot.
C4_Witness ==
    /\ Cardinality(running) = maxConcurrent
    /\ pc = "acquire"
    /\ height <= endHeight

\* C5: with startHeight > endHeight both operations fail with the
\* invalid-range error and nothing is launched or sent.
C5_InvalidRangeNoCalls ==
    startHeight > endHeight =>
        /\ pc \in {"idle", "begin", "done"}
        /\ running = {} /\ semaphore = 0
        /\ blockChan = <<>> /\ errChan = <<>>
        /\ fetch.returned => (fetch.err = InvalidRange /\ fetch.blocks = <<>>)
        /\ calc.pc \in {"idle", "start", "done"}
        /\ CalcReturned => calc.err = InvalidRange

\* C5 witness: an inverted range was refused, by either operation.
C5_Witness ==
    /\ startHeight > endHeight
    /\ \/ entry = "GetBlockRange" /\ fetch.returned /\ fetch.err = InvalidRange
       \/ entry = "CalculateStatsForRange" /\ CalcReturned
          /\ calc.err = InvalidRange /\ ~fetch.returned

\* C6 (as claimed): a fetch of a range with a height below 1 fails with the
\* invalid-range error (CalculateStatsForRange has its samples from the
\* same fetch); a cancelled call is left aside.
C6_NonPositiveRefused ==
    (fetch.returned /\ ctx # "cancelled"
        /\ (startHeight < 1 \/ endHeight < 1)) => fetch.err = InvalidRange

C8_CompleteSample ==
    (fetch.returned /\ fetch.err = NoError) =>
        Len(fetch.blocks) = endHeight - startHeight + 1

\* C9: removeOutliers returns a series of at most 3 deltas unchanged, with
\* outlierCount 0.
C9_ShortSeriesUnchanged ==
    (cleanOut.applied /\ Len(times) <= 3) =>
        (cleanOut.cleaned = times /\ cleanOut.outlierCount = 0)

\* C9 witness: three deltas out of order, under the IQR strategy, unchanged.
C9_Witness ==
    /\ cleanOut.applied
    /\ Len(times) = 3
    /\ times[1] > times[2]
    /\ ~config.UseMedianAbsolute
    /\ config.TrimPercent > 0
    /\ cleanOut.cleaned = times

IsConstant(ts) == \A k \in 1..Len(ts) : ts[k] = ts[1]

\* C10: under the MAD strategy a series whose MAD is 0 gets exactly the
\* result of the IQR strategy, and more than 3 identical deltas are all
\* retained with outlierCount 0.
C10_MadZeroIsIQR ==
    (cleanOut.applied /\ config.UseMedianAbsolute
        /\ mad4(SortFloat64s(times)) = 0) =>
        LET iqr == removeOutliers([config EXCEPT !.UseMedianAbsolute = FALSE], times)
        IN  /\ cleanOut.cleaned = iqr.cleaned
            /\ cleanOut.outlierCount = iqr.outlierCount
            /\ (Len(times) > 3 /\ IsConstant(times)) =>
                   (cleanOut.cleaned = times /\ cleanOut.outlierCount = 0)

\* C10 witness: MAD strategy, MAD 0 on a series that is not constant, and
\* the IQR fences have dropped a value.
C10_Witness ==
    /\ cleanOut.applied
    /\ config.UseMedianAbsolute
    /\ Len(times) > 3
    /\ mad4(SortFloat64s(times)) = 0
    /\ ~IsConstant(times)
    /\ cleanOut.outlierCount > 0

\* the unclamped lower fence p25 - 0.5 * iqr of a summary, in 1/200 s
LowerFence(stats) == 2 * stats.P25 - (stats.P75 - stats.P25)

\* C11: the lower bound of every estimated range is at least 0, whatever
\* the series and the confidence level, also when p25 - 0.5 * iqr is
\* negative or the confidence adjustment is applied.
C11_LowerNonNegative ==
    rangeOut.applied => rangeOut.range.Lower >= 0

\* C11 witness: a range computed below the 0.95 level for a series whose
\* fence p25 - 0.5 * iqr is negative.
C11_Witness ==
    /\ rangeOut.applied
    /\ rangeOut.series # <<>>
    /\ config.ConfidenceLevel < 95
    /\ LowerFence(rangeOut.stats) < 0
    /\ rangeOut.range.Lower > 0

\* C12 as claimed: every estimated range of a non-empty series of positive
\* deltas has lower <= typical <= upper, at every confidence level.
C12_OrderedAtEveryLevel ==
    (rangeOut.applied /\ rangeOut.series # <<>>) =>
        /\ rangeOut.range.Lower <= rangeOut.range.Typical
        /\ rangeOut.range.Typical <= rangeOut.range.Upper

\* C12 amended: lower <= upper at every confidence level, and
\* lower <= typical <= upper when the confidence level is at least 0.95
\* (no narrowing).
C12_OrderedWithoutNarrowing ==
    (rangeOut.applied /\ rangeOut.series # <<>>) =>
        /\ rangeOut.range.Lower <= rangeOut.range.Upper
        /\ (config.ConfidenceLevel >= 95) =>
               /\ rangeOut.range.Lower <= rangeOut.range.Typical
               /\ rangeOut.range.Typical <= rangeOut.range.Upper

\* C12 witness: a skewed series at a level below 0.95, narrowed, with
\* lower < upper, and a skewed series at 0.95 with lower < typical < upper.
C12_Witness ==
    /\ rangeOut.applied
    /\ ~IsConstant(rangeOut.series)
    /\ \/ /\ config.ConfidenceLevel < 95
          /\ rangeOut.range.Lower < rangeOut.range.Upper
          /\ rangeOut.range.Typical < rangeOut.range.Lower
       \/ /\ config.ConfidenceLevel >= 95
          /\ rangeOut.range.Lower < rangeOut.range.Typical
          /\ rangeOut.range.Typical < rangeOut.range.Upper

\* C17: the 0.5 percentile of a sorted non-empty sequence is its median:
\* the middle element for an odd length, the average of the two middle
\* elements for an even length.
C17_HalfPercentileIsMedian ==
    (rangeOut.applied /\ rangeOut.series # <<>>) =>
        LET s == SortFloat64s(rangeOut.series)
            n == Len(s)
        IN  IF n % 2 = 1
            THEN rangeOut.stats.Median = 100 * s[(n + 1) \div 2]
            ELSE 2 * rangeOut.stats.Median = 100 * (s[n \div 2] + s[(n \div 2) + 1])

\* C17 witness: four deltas whose two middle elements differ, summarised
\* with the average of the two as median.
C17_Witness ==
    /\ rangeOut.applied
    /\ Len(rangeOut.series) = 4
    /\ LET s == SortFloat64s(rangeOut.series)
       IN  /\ s[2] < s[3]
           /\ 2 * rangeOut.stats.Median = 100 * (s[2] + s[3])

\* scenario A has been cleaned and summarised under the default configuration
ScenarioADone ==
    /\ times = ScenarioA
    /\ config = DefaultConfig
    /\ cleanOut.applied
    /\ rangeOut.applied

\* C18 as claimed: in scenario A the median is 6, the MAD is 0.5, 100 is
\* dropped, the cleaned series is 5,5,6,6,6,7,7 with outlierCount 1, and
\* its summary has median 6 and a mean of about 5.71 (between 5.70 and 5.72).
C18_ScenarioAAsStated ==
    ScenarioADone =>
        /\ median2(SortFloat64s(times)) = 12
        /\ mad4(SortFloat64s(times)) = 2
        /\ cleanOut.cleaned = <<5, 5, 6, 6, 6, 7, 7>>
        /\ cleanOut.outlierCount = 1
        /\ rangeOut.series = cleanOut.cleaned
        /\ rangeOut.stats.Median = 600
        /\ 570 * rangeOut.stats.Count <= rangeOut.stats.Sum
        /\ rangeOut.stats.Sum <= 572 * rangeOut.stats.Count

\* C18 amended: in scenario A the median is 6, the MAD is 1 (the sorted
\* deviations are 0,0,0,1,1,1,1,94), 100 is dropped, the cleaned series is
\* 5,5,6,6,6,7,7 with outlierCount 1, and its summary has median 6 and a
\* mean of exactly 6 (42 / 7).
C18_ScenarioAMadOneMeanSix ==
    ScenarioADone =>
        /\ median2(SortFloat64s(times)) = 12
        /\ mad4(SortFloat64s(times)) = 4
        /\ cleanOut.cleaned = <<5, 5, 6, 6, 6, 7, 7>>
        /\ cleanOut.outlierCount = 1
        /\ rangeOut.series = cleanOut.cleaned
        /\ rangeOut.stats.Median = 600
        /\ rangeOut.stats.Sum = 600 * rangeOut.stats.Count

\* C18 witness: scenario A cleaned by the MAD test and summarised.
C18_Witness ==
    /\ ScenarioADone
    /\ config.UseMedianAbsolute
    /\ cleanOut.cleaned # times
    /\ rangeOut.stats.Count = 7

\* C20 as claimed: when fewer than K = 10 tasks were launched, the barrier
\* leaves work unjoined: the channels are closed and the results read while
\* a launched task is still running.
C20_UnjoinedBelowCapacity ==
    (closed /\ startHeight >= 1 /\ Launched # {}
        /\ Cardinality(Launched) < maxConcurrent) =>
        running # {}

\* C20 amended: the barrier is a join for any number of launched tasks:
\* once the reacquire loop has ended, and when the channels are closed and
\* the results read, no launched task is still running.
C20_BarrierJoinsAnyCount ==
    (pc = "collect" \/ closed) => (running = {} /\ ~panicked)

\* C20 witness: fewer than K tasks launched, all terminated, the channels
\* closed and their blocks returned.
C20_Witness ==
    /\ closed
    /\ startHeight >= 1
    /\ Launched # {}
    /\ Cardinality(Launched) < maxConcurrent
    /\ running = {}
    /\ fetch.returned
    /\ Len(fetch.blocks) = Cardinality(Launched)

C13_CompletedPrediction ==
    (entry = "PredictBlockTime" /\ pred.pc = "done"
        /\ pred.err # StatusFailed
        /\ pred.targetHeight <= LatestHeight) =>
        /\ calc.pc = "idle" /\ pc = "idle" /\ ~fetch.returned
        /\ pred.calls = <<StatusCall, BlockCall(pred.targetHeight)>>
        /\ (GetBlockByHeight(pred.targetHeight).err = NoError) =>
               /\ pred.err = NoError
               /\ Len(pred.result) = 1
               /\ pred.result[1].IsComplete
               /\ pred.result[1].ActualTime =
                      <<Instant(chain[pred.targetHeight].Time)>>
               /\ pred.result[1].BlocksLeft = 0
               /\ pred.result[1].TargetHeight = pred.targetHeight
               /\ pred.result[1].CurrentHeight = LatestHeight
               /\ pred.result[1].CurrentTime = <<>>
               /\ pred.result[1].EstimatedTime = <<>>
               /\ pred.result[1].OptimisticTime = <<>>
               /\ pred.result[1].PessimisticTime = <<>>
               /\ pred.result[1].Duration = [Typical |-> 0, Min |-> 0, Max |-> 0]
               /\ pred.result[1].BlockTimeStats = <<>>

\* C13 witness: scenario B, the target is the current height itself and
\* the completed prediction carries that block's timestamp.
C13_Witness ==
    /\ entry = "PredictBlockTime"
    /\ pred.pc = "done"
    /\ pred.err = NoError
    /\ pred.targetHeight = LatestHeight
    /\ LatestHeight > 1
    /\ Len(pred.result) = 1
    /\ pred.result[1].IsComplete
    /\ pred.result[1].ActualTime = <<Instant(chain[LatestHeight].Time)>>

\* PredictBlockTime has returned a prediction for a target above the head
ForwardPredicted ==
    /\ entry = "PredictBlockTime"
    /\ pred.pc = "done"
    /\ pred.err = NoError
    /\ pred.targetHeight > LatestHeight

\* C14 as claimed: a prediction for a target above the current height has
\* IsComplete false, BlocksLeft = target - current, the three times at
\* now + BlocksLeft x typical / lower / upper with the durations those
\* offsets, and is the same whatever the current block's timestamp is.
C14_IndependentOfBlockTime ==
    ForwardPredicted =>
        LET r    == pred.result[1]
            er   == calc.stats.EstimatedRange
            left == pred.targetHeight - LatestHeight
        IN  /\ ~r.IsComplete
            /\ r.BlocksLeft = left
            /\ r.EstimatedTime = <<Instant(pred.now) + left * er.Typical>>
            /\ r.OptimisticTime = <<Instant(pred.now) + left * er.Lower>>
            /\ r.PessimisticTime = <<Instant(pred.now) + left * er.Upper>>
            /\ r.Duration = [Typical |-> left * er.Typical,
                             Min |-> left * er.Lower, Max |-> left * er.Upper]
            /\ \A t \in {chain[LatestHeight].Time, chain[LatestHeight].Time + 1} :
                   r = blockPrediction(pred.targetHeight, LatestHeight,
                                       pred.now, t, calc.stats)

\* C14 amended: the same times and durations, anchored at the captured
\* now; of the result only CurrentBlockAge depends on the current block's
\* timestamp: it is now minus that timestamp.
C14_AnchoredAtNow ==
    ForwardPredicted =>
        LET r    == pred.result[1]
            er   == calc.stats.EstimatedRange
            left == pred.targetHeight - LatestHeight
        IN  /\ ~r.IsComplete
            /\ r.BlocksLeft = left
            /\ r.CurrentTime = <<Instant(pred.now)>>
            /\ r.EstimatedTime = <<Instant(pred.now) + left * er.Typical>>
            /\ r.OptimisticTime = <<Instant(pred.now) + left * er.Lower>>
            /\ r.PessimisticTime = <<Instant(pred.now) + left * er.Upper>>
            /\ r.Duration = [Typical |-> left * er.Typical,
                             Min |-> left * er.Lower, Max |-> left * er.Upper]
            /\ r.CurrentBlockAge =
                   Instant(pred.now) - Instant(chain[LatestHeight].Time)

\* C14 witness: a target two blocks ahead, predicted from a range with
\* lower < typical < upper.
C14_Witness ==
    /\ ForwardPredicted
    /\ pred.targetHeight = LatestHeight + 2
    /\ calc.stats.EstimatedRange.Lower < calc.stats.EstimatedRange.Typical
    /\ calc.stats.EstimatedRange.Typical < calc.stats.EstimatedRange.Upper
    /\ pred.result[1].OptimisticTime[1] < pred.result[1].EstimatedTime[1]
    /\ pred.result[1].EstimatedTime[1] < pred.result[1].PessimisticTime[1]

\* C15: PredictNextBlocks with count <= 0 fails with the error "count must
\* be positive" and calls neither the node nor the calculator.
C15_CountMustBePositive ==
    (entry = "PredictNextBlocks" /\ pred.count <= 0 /\ pred.pc # "start") =>
        /\ pred.pc = "done"
        /\ pred.err = CountNotPositive
        /\ pred.result = <<>>
        /\ pred.calls = <<>>
        /\ calc.pc = "idle" /\ pc = "idle" /\ ~fetch.returned

\* C15 witness: count 0 refused.
C15_Witness ==
    /\ entry = "PredictNextBlocks"
    /\ pred.count = 0
    /\ pred.pc = "done"
    /\ pred.err = CountNotPositive

\* C16: PredictNextBlocks with count > 0 returns exactly count milestones;
\* the k-th (k = 1..count) has Height = current + k, BlocksFromNow = k and
\* lies k x typical after the captured now, so consecutive milestones are
\* typical apart.
C16_LinearMilestones ==
    (entry = "PredictNextBlocks" /\ pred.pc = "done" /\ pred.err = NoError) =>
        LET ms      == pred.result[1].Predictions
            typical == calc.stats.EstimatedRange.Typical
        IN  /\ pred.count > 0
            /\ Len(ms) = pred.count
            /\ \A k \in 1..pred.count :
                   /\ ms[k].Height = LatestHeight + k
                   /\ ms[k].BlocksFromNow = k
                   /\ ms[k].EstimatedTime = <<Instant(pred.now) + k * typical>>
                   /\ ms[k].Duration = k * typical
            /\ \A k \in 2..pred.count :
                   ms[k].EstimatedTime[1] - ms[k - 1].EstimatedTime[1] = typical

\* C16 witness: three milestones, a block time of a second and a half.
C16_Witness ==
    /\ entry = "PredictNextBlocks"
    /\ pred.pc = "done"
    /\ pred.err = NoError
    /\ pred.count = 3
    /\ 2 * calc.stats.EstimatedRange.Typical = 3 * RangeUnit
    /\ Len(pred.result[1].Predictions) = 3
    /\ pred.result[1].Predictions[3].Height = LatestHeight + 3

\* C21: cancellation is observed only at the admission of a height: when
\* the check before admitting a height sees the context cancelled the call
\* returns the cancellation error, and launches no task afterwards; the
\* cancellation error is returned in no other place, so a cancellation
\* that fires after the last height was admitted does not abort the fetch
\* (from the barrier on the call ends only through the close of the
\* channels); and a launched task always runs to its end.
C21_CancelAtAdmissionOnly ==
    /\ [][(pc = "loop" /\ height <= endHeight /\ ctx = "cancelled"
              /\ pc' # "loop") =>
             (pc' = "done" /\ fetch'.returned /\ fetch'.err = Cancelled
                 /\ running' = running)]_vars
    /\ [][fetch.returned => (height' = height /\ running' \subseteq running)]_vars
    /\ [](fetch.err = Cancelled =>
             (fetch.returned /\ height <= endHeight /\ ~closed))
    /\ [][(ctx' # ctx) => (running' = running /\ pc' = pc
                             /\ fetch' = fetch)]_vars
    /\ [][(pc \in {"barrier", "collect"}) =>
             \/ pc' \in {"barrier", "collect"}
             \/ (pc' = "done" /\ closed' /\ fetch'.err # Cancelled)]_vars
    /\ (running # {}) ~> (running = {})

\* C21 witness: the context was cancelled during the fetch and every block
\* of the range was returned all the same.
C21_Witness ==
    /\ ctx = "cancelled"
    /\ startHeight >= 1
    /\ fetch.returned
    /\ fetch.err = NoError
    /\ Len(fetch.blocks) = endHeight - startHeight + 1
    /\ Len(fetch.blocks) > 1

\* C22: the error slot is written at most once, by a failing goroutine as
\* it ends; it is never overwritten and later failing goroutines end
\* without waiting; it is read only once no launched goroutine is running;
\* and the error GetBlockRange returns from the slot is the one written
\* first.
C22_ErrorSlotWrittenOnce ==
    /\ [](Len(errChan) <= 1)
    /\ [][(errChan = <<>> /\ errChan' # <<>>) =>
             \E h \in running :
                 /\ chain[h].kind = "error"
                 /\ errChan' = <<GetBlockFailed(h)>>
                 /\ running' = running \ {h}]_vars
    /\ [][(errChan # <<>> /\ errChan' # errChan) =>
             /\ running = {}
             /\ pc = "collect"
             /\ fetch'.returned
             /\ fetch'.err = errChan[1]
             /\ fetch'.blocks = <<>>]_vars
    /\ [][(errChan # <<>> /\ running # {}) =>
             \A h \in running : ENABLED Task(h)]_vars

\* C22 witness: heights 1 and 2 both failed, height 2 first; its error is
\* the one returned.
C22_Witness ==
    /\ startHeight = 1
    /\ endHeight >= 2
    /\ chain[1].kind = "error"
    /\ chain[2].kind = "error"
    /\ fetch.returned
    /\ fetch.err = GetBlockFailed(2)

\* C28: GetBlockRange terminates without deadlock, for ranges shorter than,
\* as long as and longer than K = 10 and every mix of answers: the call
\* eventually returns, the results channel never holds more than its
\* capacity and the error slot never more than one error (so no send
\* waits), and no goroutine sends on a closed channel.
C28_TerminatesWithoutDeadlock ==
    /\ <>fetch.returned
    /\ [](Len(blockChan) <= MaxOf(endHeight - startHeight + 1, 0))
    /\ [](Len(errChan) <= 1)
    /\ [](~panicked)

\* C28 witness: a range longer than K whose first height failed has
\* returned, every goroutine at its end.
C28_Witness ==
    /\ endHeight - startHeight + 1 > maxConcurrent
    /\ chain[startHeight].kind = "error"
    /\ fetch.returned
    /\ running = {}
    /\ closed

\* C23: the symmetric trimming follows the modified z-score test alone: when
\* the MAD method is on, the MAD is not 0, the z-score test kept more than
\* 10 values and TrimPercent > 0, removeOutliers returns the kept values
\* without the floor(n * TrimPercent) smallest and largest (in ascending
\* order when that number is not 0, in their input order when it is),
\* and its outlier count is the z-score drops plus two times that number;
\* when the z-score test ran but the trimming's conditions do not hold, the
\* kept values are returned as they are; on the IQR path and the MAD = 0
\* fallback the result is that of the IQR test, whatever TrimPercent is
C23_TrimOnlyAfterZScore ==
    (entry = "removeOutliers" /\ cleanOut.applied /\ Len(times) > minOutlierLen) =>
        LET sorted    == SortFloat64s(times)
            zPath     == config.UseMedianAbsolute /\ mad4(sorted) # 0
            Keep(v)   == zScoreKeeps(sorted, v)
            kept      == SelectSeq(times, Keep)
            n         == Len(kept)
            trimCount == (n * config.TrimPercent) \div 100
            iqr       == removeOutliersIQR(config, sorted)
        IN  IF zPath /\ n > 10 /\ config.TrimPercent > 0
            THEN /\ cleanOut.cleaned =
                       IF trimCount = 0 THEN kept
                       ELSE SubSeq(SortFloat64s(kept), trimCount + 1, n - trimCount)
                 /\ Len(cleanOut.cleaned) = n - 2 * trimCount
                 /\ cleanOut.outlierCount = (Len(times) - n) + 2 * trimCount
            ELSE IF zPath
            THEN /\ cleanOut.cleaned = kept
                 /\ cleanOut.outlierCount = Len(times) - n
            ELSE /\ cleanOut.cleaned = iqr.cleaned
                 /\ cleanOut.outlierCount = iqr.outlierCount
                 /\ \A k \in 1..Len(times) :
                       (4 * times[k] >= percentile(sorted, 1, 4)
                           /\ 4 * times[k] <= percentile(sorted, 3, 4)) =>
                       \E j \in 1..Len(cleanOut.cleaned) :
                           cleanOut.cleaned[j] = times[k]

\* 12 deltas of which the z-score test drops one; of the 11 kept, two are
\* trimmed at each end
C23_Witness ==
    /\ entry = "removeOutliers"
    /\ cleanOut.applied
    /\ config.UseMedianAbsolute
    /\ config.TrimPercent = 20
    /\ Len(times) = 12
    /\ Len(cleanOut.cleaned) = 7
    /\ cleanOut.outlierCount = 5

\* C24: the delta series of CalculateStatsForRange is the sequence of the
\* strictly positive differences between consecutive fetched blocks, in
\* order; a zero or negative difference is in neither the series nor
\* SampleSize nor OutlierCount, and the call fails after a successful fetch
\* only when fewer than MinSampleSize positive differences are left
C24_OnlyPositiveDeltas ==
    (entry = "CalculateStatsForRange" /\ calc.pc = "done" /\ fetch.returned
        /\ fetch.err = NoError /\ Len(fetch.blocks) > 0) =>
        LET b       == fetch.blocks
            diff(k) == b[k + 1].Time - b[k].Time
            pos     == {k \in 1..(Len(b) - 1) : diff(k) > 0}
            nth(j)  == CHOOSE k \in pos : Cardinality({q \in pos : q <= k}) = j
        IN  /\ Len(calc.blockTimes) = Cardinality(pos)
            /\ \A j \in 1..Len(calc.blockTimes) :
                  calc.blockTimes[j] > 0 /\ calc.blockTimes[j] = diff(nth(j))
            /\ (calc.err = NoError) <=> (Cardinality(pos) >= config.MinSampleSize)
            /\ (calc.err # NoError) => (calc.err = InsufficientSample)
            /\ (calc.err = NoError) =>
                  /\ calc.stats.SampleSize = Cardinality(pos)
                  /\ calc.stats.OutlierCount + Len(calc.cleanedTimes)
                        = Cardinality(pos)
                  /\ calc.stats.OutlierCount = 0 \/ Cardinality(pos) > minOutlierLen

\* three blocks of which the second repeats the timestamp of the first: a
\* summary of the one positive delta
C24_Witness ==
    /\ entry = "CalculateStatsForRange"
    /\ calc.pc = "done"
    /\ calc.err = NoError
    /\ Len(fetch.blocks) = 3
    /\ fetch.blocks[2].Time = fetch.blocks[1].Time
    /\ calc.blockTimes = <<2>>
    /\ calc.stats.SampleSize = 1
    /\ calc.stats.OutlierCount = 0

\* C25: removeOutliers conserves its samples on every path: the outlier
\* count plus the number of values returned is the number of values given,
\* every returned value occurs in the input at least as often as in the
\* result, and so the outlier count is exactly the number of values
\* removed; the statistics are computed on the returned values, whose
\* number plus the outlier count is the sample size
C25_SamplesConserved ==
    (entry = "removeOutliers" /\ cleanOut.applied) =>
        LET Occurs(q, v) == Cardinality({k \in 1..Len(q) : q[k] = v})
        IN  /\ cleanOut.outlierCount + Len(cleanOut.cleaned) = Len(times)
            /\ cleanOut.outlierCount >= 0
            /\ \A k \in 1..Len(cleanOut.cleaned) :
                  Occurs(cleanOut.cleaned, cleanOut.cleaned[k])
                      <= Occurs(times, cleanOut.cleaned[k])
            /\ rangeOut.applied =>
                  /\ rangeOut.series = cleanOut.cleaned
                  /\ rangeOut.stats.Count + cleanOut.outlierCount = Len(times)

\* 12 deltas, one dropped by the z-score test and 5 + 5 of the 11 others
\* trimmed: one value is left and 11 are counted as outliers
C25_Witness ==
    /\ entry = "removeOutliers"
    /\ cleanOut.applied
    /\ rangeOut.applied
    /\ config.UseMedianAbsolute
    /\ config.TrimPercent = 49
    /\ Len(times) = 12
    /\ Len(cleanOut.cleaned) = 1
    /\ cleanOut.outlierCount = 11

\* C26: removeOutliers returns at least one value of every non-empty
\* series: the z-score test keeps at least half of the values, the IQR test
\* (chosen or as the MAD = 0 fallback) keeps every value from Q1 to Q3, of
\* which there is one, the trimming cuts fewer than half of the kept values
\* at each end, and the statistics and the range are computed on a
\* non-empty series
C26_NeverEmpty ==
    (entry = "removeOutliers" /\ cleanOut.applied /\ times # <<>>) =>
        LET sorted  == SortFloat64s(times)
            zPath   == /\ Len(times) > minOutlierLen
                       /\ config.UseMedianAbsolute
                       /\ mad4(sorted) # 0
            Keep(v) == zScoreKeeps(sorted, v)
            kept    == SelectSeq(times, Keep)
            Inner   == {k \in 1..Len(times) :
                           /\ 4 * times[k] >= percentile(sorted, 1, 4)
                           /\ 4 * times[k] <= percentile(sorted, 3, 4)}
        IN  /\ cleanOut.cleaned # <<>>
            /\ zPath => /\ 2 * Len(kept) >= Len(times)
                        /\ 2 * ((Len(kept) * config.TrimPercent) \div 100) < Len(kept)
            /\ (Len(times) > minOutlierLen /\ ~zPath) =>
                  /\ Inner # {}
                  /\ Len(cleanOut.cleaned) >= Cardinality(Inner)
            /\ rangeOut.applied =>
                  /\ rangeOut.stats.Count >= 1
                  /\ rangeOut.stats.Min >= 100
                  /\ rangeOut.range.Upper > 0

\* a series whose MAD and IQR are both 0 apart from two far values: the
\* fallback keeps the values that equal Q1 and Q3
C26_Witness ==
    /\ entry = "removeOutliers"
    /\ cleanOut.applied
    /\ rangeOut.applied
    /\ config.UseMedianAbsolute
    /\ Len(times) > minTrimLen
    /\ mad4(SortFloat64s(times)) = 0
    /\ cleanOut.outlierCount = 2
    /\ rangeOut.stats.Count = Len(times) - 2

\* C27: for a non-empty series of positive deltas and every confidence
\* level, the estimated range lies inside the data: min <= lower <= upper
\* <= p95 <= max; the narrowing moves each bound inwards by at most half of
\* the width before narrowing, and by less than half when that width is not
\* 0, so the bounds do not cross
C27_RangeInsideData ==
    (rangeOut.applied /\ rangeOut.series # <<>>) =>
        LET st     == rangeOut.stats
            rg     == rangeOut.range
            iqr    == st.P75 - st.P25
            lower0 == 190 * MaxOf(2 * st.P25 - iqr, 2 * st.Min)
            upper0 == 190 * MinOf(2 * st.P75 + iqr, 2 * st.P95)
        IN  /\ rg.Lower <= rg.Upper
            /\ 380 * st.Min <= rg.Lower
            /\ rg.Upper <= 380 * st.P95
            /\ st.P95 <= st.Max
            /\ lower0 <= rg.Lower
            /\ rg.Upper <= upper0
            /\ 2 * (rg.Lower - lower0) <= upper0 - lower0
            /\ 2 * (upper0 - rg.Upper) <= upper0 - lower0
            /\ (upper0 > lower0) =>
                  /\ 2 * (rg.Lower - lower0) < upper0 - lower0
                  /\ 2 * (upper0 - rg.Upper) < upper0 - lower0
                  /\ rg.Lower < rg.Upper

\* a series narrowed at confidence 0.10 until the median lies below the
\* lower bound, with both bounds strictly inside min and p95
C27_Witness ==
    /\ rangeOut.applied
    /\ config.ConfidenceLevel = 10
    /\ rangeOut.range.Typical < rangeOut.range.Lower
    /\ 380 * rangeOut.stats.Min < rangeOut.range.Lower
    /\ rangeOut.range.Lower < rangeOut.range.Upper
    /\ rangeOut.range.Upper < 380 * rangeOut.stats.P95

====
